---------------------------- MODULE Spec2Model ----------------------------
(***************************************************************************)
(* BumbleBee v19.5 beta (src/main.py): the session scheduler bot_loop, the *)
(* control handlers /start, /stop and /controls, the market cache and the  *)
(* sqlite session store (tables sessions and trades).                      *)
(*                                                                         *)
(* Conventions.                                                            *)
(*  - A nullable value (Python None, SQL NULL) is a set with at most one   *)
(*    element: None is {} and Some(x) is {x}.                              *)
(*  - Prices are in tenths of a unit (0.6 is 6), so profit is in tenths.   *)
(*  - Of the sessions columns the model keeps condition_id, end_ts,        *)
(*    shares_target, shares_yes, shares_no and profit; market_question,    *)
(*    start_ts, mode and max_price are written and never read by the code. *)
(*    STATE.status_msg and STATE.start_time are written and never read by  *)
(*    the scheduler and are left out.                                      *)
(*  - Locals of bot_loop that are reassigned before every use (market,     *)
(*    yes, no, sy, sn) are cleared when an iteration ends.                 *)
(*  - pc = "dead" is the scheduler thread ended by an uncaught exception.  *)
(***************************************************************************)
EXTENDS Integers, Sequences, FiniteSets, TLC

VARIABLES
    running, mode, shares, max_price, max_sessions, current_sessions,
    active_markets, last_market_refresh,
    lock, now,
    pc, session_id, session_end, session_condition,
    market, yes, no, sy, sn, txn,
    sessions, trades,
    fetch, closedInRun,
    response, prices

ctl   == <<running, mode, shares, max_price, max_sessions, current_sessions>>
cache == <<active_markets, last_market_refresh>>
loc   == <<session_id, session_end, session_condition, market, yes, no, sy, sn, txn>>
store == <<sessions, trades>>
ghost == <<fetch, closedInRun>>
scan  == <<response, prices>>
vars  == <<ctl, cache, lock, now, pc, loc, store, ghost, scan>>

---------------------------------------------------------------------------
(* Bounds and input sets *)

MaxSessions == 2       \* rows the sessions table may hold
MaxTrades   == 2       \* rows the trades table may hold
MaxTicks    == 1       \* clock advances
MaxFeed     == 3       \* records in one recent-trades response

MARKET_REFRESH_SECONDS == 30

None    == {}
Some(x) == {x}
The(o)  == CHOOSE x \in o : TRUE

\* The clock is observed at multiples of the refresh period, the only
\* duration the code compares the clock against.
T0 == MARKET_REFRESH_SECONDS

\* Market instances the catalogue may list: identity and expiry.
Catalog == { [conditionId |-> "A", endDate |-> T0 + MARKET_REFRESH_SECONDS],
             [conditionId |-> "B", endDate |-> T0 + 2 * MARKET_REFRESH_SECONDS] }

Prices      == {6, 7}
ShareInputs == {30}
PriceInputs == {}
ModeInputs  == {}
LimitInputs == {0, 1, 2}

TradeRecords == [outcome : {"YES", "NO"}, price : {None} \cup {Some(p) : p \in Prices}]

RECURSIVE SeqsUpTo(_, _)
SeqsUpTo(S, n) ==
    IF n = 0 THEN { <<>> }
    ELSE LET shorter == SeqsUpTo(S, n - 1)
         IN  shorter \cup { Append(s, x) : s \in { t \in shorter : Len(t) = n - 1 }, x \in S }

TradeFeeds == SeqsUpTo(TradeRecords, MaxFeed)

ControlReqs == [shares       : {None} \cup {Some(x) : x \in ShareInputs},
                max_price    : {None} \cup {Some(x) : x \in PriceInputs},
                mode         : {None} \cup {Some(x) : x \in ModeInputs},
                max_sessions : {None} \cup {Some(x) : x \in LimitInputs}]

\* closedInRun counts the sessions closed since the last /start while the
\* session limit that was configured at that /start is still unchanged;
\* otherwise (no limit, or the limit was changed during the run) it is
\* Untracked.  fetch records how the last price fetch of the running
\* iteration ended.  Neither is read by any action's guard.
Untracked == 0 - 1

---------------------------------------------------------------------------
(* Initial state: BotState.__init__, init_db on a fresh database, and the  *)
(* locals of bot_loop before its first iteration.                          *)

Boot ==
    /\ running = FALSE
    /\ mode = "paper"
    /\ shares = 20
    /\ max_price = 6
    /\ max_sessions = None
    /\ current_sessions = 0
    /\ active_markets = {}
    /\ last_market_refresh = 0
    /\ lock = "free"
    /\ now = T0
    /\ pc = "top"
    /\ session_id = None
    /\ session_end = None
    /\ session_condition = None
    /\ market = None
    /\ yes = 0 /\ no = 0 /\ sy = 0 /\ sn = 0
    /\ txn = <<>>
    /\ sessions = <<>>
    /\ trades = <<>>
    /\ fetch = "idle"
    /\ closedInRun = Untracked

\* No call of get_latest_prices is followed record by record.
Init ==
    /\ Boot
    /\ response = None
    /\ prices = None

---------------------------------------------------------------------------
(* Market detection: refresh_markets_if_needed, select_active_market *)

\* What load_candidate_markets may do: raise (ok = FALSE) or return the
\* filtered list, which the catalogue decides and may still hold a market
\* past its endDate.
LoadOutcomes ==
    { [ok |-> FALSE, markets |-> {}] } \cup { [ok |-> TRUE, markets |-> ms] : ms \in SUBSET Catalog }

\* main.py:103, negated: the refresh is attempted.
RefreshDue(force, t, last) == force \/ ~(t - last < MARKET_REFRESH_SECONDS)

\* main.py:106-113: the cache after the attempt (an exception or an empty
\* list keeps the cached list and its timestamp).
RefreshedMarkets(due, resp, old) ==
    IF due /\ resp.ok /\ resp.markets # {} THEN resp.markets ELSE old

RefreshedStamp(due, resp, t, old) ==
    IF due /\ resp.ok /\ resp.markets # {} THEN t ELSE old

\* main.py:115-123: the market with the earliest endDate, None without any.
SelectActiveMarket(ms) ==
    IF ms = {} THEN None
    ELSE Some(CHOOSE m \in ms : \A n \in ms : m.endDate <= n.endDate)

---------------------------------------------------------------------------
(* Price feed: get_latest_prices *)

PriceResponses ==
    { [ok |-> FALSE, feed |-> <<>>] } \cup { [ok |-> TRUE, feed |-> f] : f \in TradeFeeds }

\* main.py:128-135: the scan. float(None) raises on a record without a
\* price before its side is looked at; a side's price is assigned on every
\* record of that side until both sides hold a value.
RECURSIVE ScanTrades(_, _, _, _)
ScanTrades(feed, i, y, n) ==
    IF i > Len(feed) THEN [kind |-> "none", yes |-> 0, no |-> 0]
    ELSE IF feed[i].price = None THEN [kind |-> "raise", yes |-> 0, no |-> 0]
    ELSE LET price == The(feed[i].price)
             y2 == IF feed[i].outcome = "YES" THEN Some(price) ELSE y
             n2 == IF feed[i].outcome = "NO" THEN Some(price) ELSE n
         IN  IF y2 # None /\ n2 # None
             THEN [kind |-> "ok", yes |-> The(y2), no |-> The(n2)]
             ELSE ScanTrades(feed, i + 1, y2, n2)

\* main.py:125-135: requests.get may raise (request error, timeout).
GetLatestPrices(resp) ==
    IF ~resp.ok THEN [kind |-> "raise", yes |-> 0, no |-> 0]
    ELSE ScanTrades(resp.feed, 1, None, None)

---------------------------------------------------------------------------
(* Session store helpers *)

\* SQL SUM over the rows of one session and side: NULL without rows.
RECURSIVE SumRows(_, _, _, _)
SumRows(trs, sid, side, weighted) ==
    IF trs = <<>> THEN 0
    ELSE LET t == Head(trs)
             v == IF t.session_id = sid /\ t.side = side
                  THEN (IF weighted THEN t.price * t.shares ELSE t.shares)
                  ELSE 0
         IN  v + SumRows(Tail(trs), sid, side, weighted)

HasRows(trs, sid) == \E i \in 1..Len(trs) : trs[i].session_id = sid

SqlSum(trs, sid, side, weighted) ==
    IF HasRows(trs, sid) THEN Some(SumRows(trs, sid, side, weighted)) ELSE None

OrZero(o) == IF o = None \/ o = Some(0) THEN 0 ELSE The(o)

Min(a, b) == IF a <= b THEN a ELSE b

\* Profit with the payoff taken as the sum of both sides' shares.
ProfitSumBothSides(trs, sid) ==
    LET cost_yes == OrZero(SqlSum(trs, sid, "YES", TRUE))
        cost_no  == OrZero(SqlSum(trs, sid, "NO", TRUE))
        fy       == OrZero(SqlSum(trs, sid, "YES", FALSE))
        fn       == OrZero(SqlSum(trs, sid, "NO", FALSE))
    IN  10 * (fy + fn) - (cost_yes + cost_no)

\* main.py:198-211: profit, in tenths (a matched pair pays 1 unit = 10).
Profit(trs, sid) ==
    LET cost_yes == OrZero(SqlSum(trs, sid, "YES", TRUE))
        cost_no  == OrZero(SqlSum(trs, sid, "NO", TRUE))
        fy       == OrZero(SqlSum(trs, sid, "YES", FALSE))
        fn       == OrZero(SqlSum(trs, sid, "NO", FALSE))
    IN  10 * Min(fy, fn) - (cost_yes + cost_no)

\* The inserted row with the start timestamp written to end_ts.
NewSessionRowStamped(m, target) ==
    [condition_id  |-> IF m # None THEN Some(The(m).conditionId) ELSE None,
     end_ts        |-> Some(now),
     shares_target |-> target,
     shares_yes    |-> 0,
     shares_no     |-> 0,
     profit        |-> None]

\* main.py:158-169: the inserted row.
NewSessionRow(m, target) ==
    [condition_id  |-> IF m # None THEN Some(The(m).conditionId) ELSE None,
     end_ts        |-> None,
     shares_target |-> target,
     shares_yes    |-> 0,
     shares_no     |-> 0,
     profit        |-> None]

\* A session is inserted in every iteration.
AlwaysNeedSession(sid) == TRUE

\* main.py:155
NeedSession(sid) == sid = None

\* main.py:175
MarketChanged(m, cond) == m # None /\ Some(The(m).conditionId) # cond

\* The expiry test always true.
ExpiredAlways(t, end) == TRUE

\* main.py:195
Expired(t, end) == t >= The(end)

\* The closed session kept as the scheduler's current session.
KeepAfterClose(sid) == sid

\* main.py:225: the scheduler's current session after a closure.
AfterClose(sid) == None

\* The limit test with > for >=.
LimitExceeded(limit, count) == limit # None /\ The(limit) # 0 /\ count > The(limit)

\* main.py:221
LimitReached(limit, count) == limit # None /\ The(limit) # 0 /\ count >= The(limit)

\* The entry rule without the test of the counter.
EntryAllowedPriceOnly(price, ceiling, filled, target) == price <= ceiling

\* The entry rule with < for <= on the price.
EntryAllowedStrict(price, ceiling, filled, target) == price < ceiling /\ filled < target

\* main.py:238 and 248: the entry rule of one side.
EntryAllowed(price, ceiling, filled, target) == price <= ceiling /\ filled < target

\* main.py:239 and 249
Remaining(target, filled) == target - filled

\* main.py:240-245 and 250-255: the INSERT and the UPDATE of one fill, both
\* pending in the connection's transaction.
PendingFill(side, price, buy) == [side |-> side, price |-> price, shares |-> buy, inc |-> buy]

RECURSIVE PendingInc(_, _)
PendingInc(t, side) ==
    IF t = <<>> THEN 0
    ELSE (IF Head(t).side = side THEN Head(t).inc ELSE 0) + PendingInc(Tail(t), side)

RECURSIVE PendingRows(_, _)
PendingRows(t, sid) ==
    IF t = <<>> THEN <<>>
    ELSE << [session_id |-> sid, side |-> Head(t).side,
             price |-> Head(t).price, shares |-> Head(t).shares] >> \o PendingRows(Tail(t), sid)

\* main.py:258: the commit makes the pending rows and increments visible.
CommittedTrades(trs, t, sid) == trs \o PendingRows(t, sid)

\* The commit with the NO increments lost.
CommittedSessionsYesOnly(ss, t, sid) ==
    [ss EXCEPT ![sid].shares_yes = @ + PendingInc(t, "YES")]

CommittedSessions(ss, t, sid) ==
    [ss EXCEPT ![sid].shares_yes = @ + PendingInc(t, "YES"),
               ![sid].shares_no  = @ + PendingInc(t, "NO")]

---------------------------------------------------------------------------
(* The scheduler: bot_loop, one action per step of an iteration *)

ClearedLocals == market' = None /\ yes' = 0 /\ no' = 0 /\ sy' = 0 /\ sn' = 0

\* The run flag ignored.
NeverIdle(flag) == FALSE

\* main.py:147: the run flag read under the lock.
MustIdle(flag) == ~flag

\* main.py:146-149, entry: the lock is taken; a running scheduler releases
\* it at once, an idle one keeps it while it sleeps.
LoopCheck ==
    /\ pc = "top"
    /\ lock = "free"
    /\ IF MustIdle(running)
       THEN lock' = "loop" /\ pc' = "sleep"
       ELSE lock' = lock /\ pc' = "refresh"
    /\ fetch' = "idle"
    /\ UNCHANGED <<ctl, cache, now, loc, store, closedInRun, scan>>

\* main.py:148-149: the sleep ends, `continue` leaves the with block.
LoopWake ==
    /\ pc = "sleep"
    /\ lock' = "free"
    /\ pc' = "top"
    /\ UNCHANGED <<ctl, cache, now, loc, store, ghost, scan>>

\* main.py:152-153, load_candidate_markets ending as one of `outcomes`.
RefreshFrom(outcomes) ==
    /\ pc = "refresh"
    /\ \E resp \in outcomes :
         LET due == RefreshDue(session_condition = None, now, last_market_refresh)
         IN  /\ active_markets' = RefreshedMarkets(due, resp, active_markets)
             /\ last_market_refresh' = RefreshedStamp(due, resp, now, last_market_refresh)
    /\ market' = SelectActiveMarket(active_markets')
    /\ pc' = "create"
    /\ UNCHANGED <<ctl, lock, now, session_id, session_end, session_condition,
                   yes, no, sy, sn, txn, store, ghost, scan>>

Refresh == RefreshFrom(LoadOutcomes)

\* main.py:155-173
CreateSession ==
    /\ pc = "create"
    /\ IF NeedSession(session_id)
       THEN /\ Len(sessions) < MaxSessions
            /\ sessions' = Append(sessions, NewSessionRow(market, shares))
            /\ session_id' = Some(Len(sessions) + 1)
       ELSE UNCHANGED <<sessions, session_id>>
    /\ pc' = "assoc"
    /\ UNCHANGED <<ctl, cache, lock, now, session_end, session_condition,
                   market, yes, no, sy, sn, txn, trades, ghost, scan>>

\* main.py:175-193
Associate ==
    /\ pc = "assoc"
    /\ IF MarketChanged(market, session_condition)
       THEN /\ session_condition' = Some(The(market).conditionId)
            /\ session_end' = Some(The(market).endDate)
            /\ sessions' = [sessions EXCEPT
                   ![The(session_id)].condition_id = Some(The(market).conditionId)]
       ELSE UNCHANGED <<session_condition, session_end, sessions>>
    /\ IF market = None
       THEN pc' = "top" /\ ClearedLocals
       ELSE pc' = "expiry" /\ UNCHANGED <<market, yes, no, sy, sn>>
    /\ UNCHANGED <<ctl, cache, lock, now, session_id, txn, trades, ghost, scan>>

\* main.py:195-217 when the expiry is reached, else on to the price fetch.
CheckExpiry ==
    /\ pc = "expiry"
    /\ IF Expired(now, session_end)
       THEN /\ sessions' = [sessions EXCEPT
                   ![The(session_id)].end_ts = Some(now),
                   ![The(session_id)].profit = Some(Profit(trades, The(session_id)))]
            /\ closedInRun' = IF closedInRun = Untracked THEN Untracked ELSE closedInRun + 1
            /\ pc' = "count"
       ELSE /\ UNCHANGED <<sessions, closedInRun>>
            /\ pc' = "prices"
    /\ UNCHANGED <<ctl, cache, lock, now, loc, trades, fetch, scan>>

\* main.py:219-228
CountSession ==
    /\ pc = "count"
    /\ lock = "free"
    /\ current_sessions' = current_sessions + 1
    /\ running' = IF LimitReached(max_sessions, current_sessions') THEN FALSE ELSE running
    /\ session_id' = AfterClose(session_id)
    /\ session_condition' = None
    /\ session_end' = None
    /\ pc' = "top"
    /\ ClearedLocals
    /\ UNCHANGED <<mode, shares, max_price, max_sessions, cache, lock, now, txn, store, ghost, scan>>

\* What one call of get_latest_prices may give.
PriceResults == { GetLatestPrices(resp) : resp \in PriceResponses }

\* main.py:230-236, the call giving one of `results`.
FetchPricesFrom(results) ==
    /\ pc = "prices"
    /\ \E r \in results :
             CASE r.kind = "raise" ->
                    /\ pc' = "dead"
                    /\ fetch' = "raised"
                    /\ ClearedLocals
               [] r.kind = "none" ->
                    /\ pc' = "top"
                    /\ fetch' = "none"
                    /\ ClearedLocals
               [] OTHER ->
                    /\ pc' = "yes_check"
                    /\ fetch' = "ok"
                    /\ yes' = r.yes
                    /\ no' = r.no
                    /\ sy' = sessions[The(session_id)].shares_yes
                    /\ sn' = sessions[The(session_id)].shares_no
                    /\ market' = market
    /\ UNCHANGED <<ctl, cache, lock, now, session_id, session_end, session_condition,
                   txn, store, closedInRun, scan>>

FetchPrices == FetchPricesFrom(PriceResults)

\* main.py:238
YesCheck ==
    /\ pc = "yes_check"
    /\ pc' = IF EntryAllowed(yes, max_price, sy, shares) THEN "yes_buy" ELSE "no_check"
    /\ UNCHANGED <<ctl, cache, lock, now, loc, store, ghost, scan>>

\* main.py:239-246
YesBuy ==
    /\ pc = "yes_buy"
    /\ Len(trades) + Len(txn) < MaxTrades
    /\ txn' = Append(txn, PendingFill("YES", yes, Remaining(shares, sy)))
    /\ pc' = "no_check"
    /\ UNCHANGED <<ctl, cache, lock, now, session_id, session_end, session_condition,
                   market, yes, no, sy, sn, store, ghost, scan>>

\* main.py:248
NoCheck ==
    /\ pc = "no_check"
    /\ pc' = IF EntryAllowed(no, max_price, sn, shares) THEN "no_buy" ELSE "commit"
    /\ UNCHANGED <<ctl, cache, lock, now, loc, store, ghost, scan>>

\* main.py:249-256
NoBuy ==
    /\ pc = "no_buy"
    /\ Len(trades) + Len(txn) < MaxTrades
    /\ txn' = Append(txn, PendingFill("NO", no, Remaining(shares, sn)))
    /\ pc' = "commit"
    /\ UNCHANGED <<ctl, cache, lock, now, session_id, session_end, session_condition,
                   market, yes, no, sy, sn, store, ghost, scan>>

\* main.py:258-261
Commit ==
    /\ pc = "commit"
    /\ trades' = CommittedTrades(trades, txn, The(session_id))
    /\ sessions' = CommittedSessions(sessions, txn, The(session_id))
    /\ txn' = <<>>
    /\ pc' = "top"
    /\ ClearedLocals
    /\ UNCHANGED <<ctl, cache, lock, now, session_id, session_end, session_condition, ghost, scan>>

\* main.py:240-258: a statement of the fill transaction raises
\* sqlite3.Error; the exception leaves bot_loop, the connection is dropped
\* uncommitted and its pending rows and increments are rolled back.
StoreFailure ==
    /\ pc \in {"yes_buy", "no_buy", "commit"}
    /\ txn' = <<>>
    /\ pc' = "dead"
    /\ ClearedLocals
    /\ UNCHANGED <<ctl, cache, lock, now, session_id, session_end, session_condition,
                   store, ghost, scan>>

---------------------------------------------------------------------------
(* Control handlers *)

\* main.py:274-281
Start ==
    /\ lock = "free"
    /\ running' = TRUE
    /\ current_sessions' = 0
    /\ closedInRun' = IF max_sessions # None THEN 0 ELSE Untracked
    /\ UNCHANGED <<mode, shares, max_price, max_sessions, cache, lock, now, pc, loc, store, fetch, scan>>

\* main.py:283-288
Stop ==
    /\ lock = "free"
    /\ running' = FALSE
    /\ UNCHANGED <<mode, shares, max_price, max_sessions, current_sessions,
                   cache, lock, now, pc, loc, store, ghost, scan>>

\* main.py:293-297: one field of the request applied to one field of STATE.
Updated(field, old) == IF field # None THEN The(field) ELSE old

\* The limit cleared by every request that gives no positive limit.
UpdatedLimitClearing(field, old) ==
    IF field # None /\ The(field) > 0 THEN field ELSE None

UpdatedLimit(field, old) ==
    IF field # None THEN (IF The(field) > 0 THEN field ELSE None) ELSE old

\* main.py:290-299
Controls(req) ==
    /\ lock = "free"
    /\ shares' = Updated(req.shares, shares)
    /\ max_price' = Updated(req.max_price, max_price)
    /\ mode' = Updated(req.mode, mode)
    /\ max_sessions' = UpdatedLimit(req.max_sessions, max_sessions)
    /\ closedInRun' = IF max_sessions' = max_sessions THEN closedInRun ELSE Untracked
    /\ UNCHANGED <<running, current_sessions, cache, lock, now, pc, loc, store,
                   fetch, scan>>

Configure == \E req \in ControlReqs : Controls(req)

\* The clock (time.time, datetime.now) advances.
Tick ==
    /\ now < T0 + MaxTicks * MARKET_REFRESH_SECONDS
    /\ now' = now + MARKET_REFRESH_SECONDS
    /\ UNCHANGED <<ctl, cache, lock, pc, loc, store, ghost, scan>>

Next ==
    \/ LoopCheck \/ LoopWake \/ Refresh \/ CreateSession \/ Associate
    \/ CheckExpiry \/ CountSession \/ FetchPrices
    \/ YesCheck \/ YesBuy \/ NoCheck \/ NoBuy \/ Commit \/ StoreFailure
    \/ Start \/ Stop \/ Configure \/ Tick

Spec == Init /\ [][Next]_vars

---------------------------------------------------------------------------
(* get_latest_prices on its own: one call on each response of GET /trades *)

\* main.py:126: the response the call receives.
InitPrices ==
    /\ Boot
    /\ response \in { Some(resp) : resp \in PriceResponses }
    /\ prices = None

\* main.py:127-135 and 230: the scan of the response and the value returned.
ScanPrices ==
    /\ response # None
    /\ prices = None
    /\ prices' = Some(GetLatestPrices(The(response)))
    /\ UNCHANGED <<ctl, cache, lock, now, pc, loc, store, ghost, response>>

NextPrices == ScanPrices

SpecPrices == InitPrices /\ [][NextPrices]_vars

---------------------------------------------------------------------------
(* The handlers with every field of ControlReq in use, against a scheduler *)
(* whose catalogue lists every market at each load and whose market shows  *)
(* no trade on one of the sides, so that every poll ends at main.py:231    *)
(* without a fill.                                                         *)

\* main.py:268-272: ControlReq puts no constraint on a field's value.
WideShareInputs == {0 - 10}
WidePriceInputs == {7}
WideModeInputs  == {"real"}
WideLimitInputs == {0, 1}

WideControlReqs == [shares       : {None} \cup {Some(x) : x \in WideShareInputs},
                    max_price    : {None} \cup {Some(x) : x \in WidePriceInputs},
                    mode         : {None} \cup {Some(x) : x \in WideModeInputs},
                    max_sessions : {None} \cup {Some(x) : x \in WideLimitInputs}]

ConfigureWide == \E req \in WideControlReqs : Controls(req)

\* What get_latest_prices gives while the feed holds priced records of one
\* side at most.
OneSided(feed) ==
    /\ \A i \in 1..Len(feed) : feed[i].price # None
    /\ \A i, j \in 1..Len(feed) : feed[i].outcome = feed[j].outcome

QuietResults ==
    { GetLatestPrices(resp) : resp \in { q \in PriceResponses : q.ok /\ OneSided(q.feed) } }

FetchNoPrices == FetchPricesFrom(QuietResults)

\* What load_candidate_markets gives while the catalogue answers and lists
\* every market.
ListedOutcomes == { o \in LoadOutcomes : o.ok /\ o.markets = Catalog }

RefreshListed == RefreshFrom(ListedOutcomes)

NextControls ==
    \/ LoopCheck \/ LoopWake \/ RefreshListed \/ CreateSession \/ Associate
    \/ CheckExpiry \/ CountSession \/ FetchNoPrices
    \/ Start \/ Stop \/ ConfigureWide \/ Tick

SpecControls == Init /\ [][NextControls]_vars

---------------------------------------------------------------------------
(* The entry rule against /controls requests that move the share target,   *)
(* before the first expiry.                                                *)

TargetInputs == {0, 30}

TargetReqs == [shares       : {Some(x) : x \in TargetInputs},
               max_price    : {None},
               mode         : {None},
               max_sessions : {None}]

ConfigureTarget == \E req \in TargetReqs : Controls(req)

NextRace ==
    \/ LoopCheck \/ LoopWake \/ Refresh \/ CreateSession \/ Associate
    \/ CheckExpiry \/ FetchPrices
    \/ YesCheck \/ YesBuy \/ NoCheck \/ NoBuy \/ Commit \/ StoreFailure
    \/ Start \/ Stop \/ ConfigureTarget

SpecRace == Init /\ [][NextRace]_vars

---------------------------------------------------------------------------
(* Properties *)

SessionIds == 1..Len(sessions)
IsOpen(i)   == sessions[i].end_ts = None
IsClosed(i) == sessions[i].end_ts # None
Filled(i, side) == SumRows(trades, i, side, FALSE)
Cost(i, side)   == SumRows(trades, i, side, TRUE)

\* C1: no two closed sessions carry the same market identity (at most one
\* session is ever created and closed per market).
C1_OneSessionPerMarket ==
    \A i, j \in SessionIds :
        (i # j /\ IsClosed(i) /\ IsClosed(j) /\ sessions[i].condition_id # None)
            => sessions[i].condition_id # sessions[j].condition_id

\* C2: in every state each session's shares_yes and shares_no are at most
\* the shares_target recorded on its row at creation.
C2_FilledWithinRowTarget ==
    \A i \in SessionIds :
        /\ sessions[i].shares_yes <= sessions[i].shares_target
        /\ sessions[i].shares_no  <= sessions[i].shares_target

\* C3: in every committed store state each session's shares_yes is the sum
\* of the quantities of its YES trades and shares_no that of its NO trades.
C3_CountersMatchFills ==
    \A i \in SessionIds :
        /\ sessions[i].shares_yes = Filled(i, "YES")
        /\ sessions[i].shares_no  = Filled(i, "NO")

\* C3 witness: one commit has made a YES and a NO fill of a session visible.
C3_Witness ==
    \E i \in SessionIds :
        /\ sessions[i].shares_yes > 0
        /\ sessions[i].shares_no > 0
        /\ Len(trades) = 2
        /\ pc = "top"

AtMostOneOpen == \A i, j \in SessionIds : (IsOpen(i) /\ IsOpen(j)) => i = j

\* C4: at most one session has end_ts null at any instant, and a session is
\* inserted only when every earlier session is closed.
C4_OneOpenSession ==
    /\ []AtMostOneOpen
    /\ [][Len(sessions') > Len(sessions) => \A i \in SessionIds : IsClosed(i)]_vars

\* C4 witness: a successor session is open after its predecessor was closed.
C4_Witness ==
    /\ Len(sessions) = 2
    /\ IsClosed(1)
    /\ IsOpen(2)

\* C5: a closed session's profit is min(filled YES, filled NO) minus the
\* cost of both sides (in tenths); with a side unfilled it is minus the
\* total cost.
C5_ProfitAtClose ==
    \A i \in SessionIds :
        IsClosed(i) =>
            /\ sessions[i].profit =
                   Some(10 * Min(sessions[i].shares_yes, sessions[i].shares_no)
                        - (Cost(i, "YES") + Cost(i, "NO")))
            /\ (sessions[i].shares_yes = 0 \/ sessions[i].shares_no = 0)
                   => sessions[i].profit = Some(0 - (Cost(i, "YES") + Cost(i, "NO")))

\* C5 witness: a session closed with fills on the YES side only, at a loss.
C5_Witness ==
    \E i \in SessionIds :
        /\ IsClosed(i)
        /\ sessions[i].shares_yes > 0
        /\ sessions[i].shares_no = 0
        /\ sessions[i].profit = Some(0 - Cost(i, "YES"))
        /\ Cost(i, "YES") > 0

\* C6: once a session has a market identity, its condition_id never changes.
C6_ConditionNeverChanges ==
    [][\A i \in SessionIds :
          sessions[i].condition_id # None
              => sessions'[i].condition_id = sessions[i].condition_id]_vars

\* C7: a failed price fetch is not fatal: the scheduler loop is alive after it.
C7_PriceFetchFailureNonFatal == fetch = "raised" => pc # "dead"

\* An iteration whose market lookup gave no market, after the lookup.
InNoMarketPoll == pc \in {"create", "assoc"} /\ market = None

C9_StoppedLeavesStore ==
    [][(~running /\ pc \in {"top", "sleep"} /\ ~running')
          => (sessions' = sessions /\ trades' = trades /\ pc' \in {"top", "sleep"})]_vars

\* C9 witness: the scheduler idles after a stop with an open session that
\* holds a fill.
C9_Witness ==
    /\ ~running
    /\ pc = "sleep"
    /\ session_id # None
    /\ IsOpen(The(session_id))
    /\ sessions[The(session_id)].shares_yes > 0

LimitHit == closedInRun # Untracked /\ closedInRun = The(max_sessions)

\* C10: with a session limit N unchanged during a run, at most N sessions
\* are closed since the last start; counting the Nth closure clears the run
\* flag; after that no session is created or closed before the next start.
C10_SessionLimit ==
    /\ [](closedInRun # Untracked => closedInRun <= The(max_sessions))
    /\ [][(LimitHit /\ pc = "count" /\ pc' # "count") => ~running']_vars
    /\ [][(LimitHit /\ pc # "count" /\ closedInRun' = closedInRun)
             => (sessions' = sessions /\ ~running')]_vars

\* C10 witness: the limit of one session was reached, the scheduler idles
\* and the sessions table has room for another row.
C10_Witness ==
    /\ LimitHit
    /\ ~running
    /\ pc = "sleep"
    /\ Len(sessions) < MaxSessions

TradeCount(i, side) ==
    Cardinality({ k \in 1..Len(trades) : trades[k].session_id = i /\ trades[k].side = side })

\* In Spec the share target only moves from 20 to 30, so a row whose
\* shares_target equals STATE.shares saw no change of the target since its
\* creation.
TargetUnchangedSince(i) == sessions[i].shares_target = shares

\* C11: a side whose counter has reached the target gets no further Fill
\* when the entry rule is re-evaluated, whatever the price; with the share
\* target unchanged a session holds at most one Fill per side.
C11_SingleShotPerSide ==
    /\ [](\A i \in SessionIds : \A side \in {"YES", "NO"} :
             TargetUnchangedSince(i) => TradeCount(i, side) <= 1)
    /\ [][(pc = "yes_check" /\ pc' # pc /\ sy >= shares) => pc' # "yes_buy"]_vars
    /\ [][(pc = "no_check" /\ pc' # pc /\ sn >= shares) => pc' # "no_buy"]_vars

\* C11 witness: the YES side is at its target, the entry rule was evaluated
\* again at a price within the ceiling and produced no Fill.
C11_Witness ==
    /\ pc = "no_check"
    /\ txn = <<>>
    /\ yes <= max_price
    /\ sy > 0
    /\ sy >= shares
    /\ TradeCount(The(session_id), "YES") = 1

InEntryRule == pc \in {"yes_check", "yes_buy", "no_check", "no_buy", "commit"}

\* C14: in a poll of an open, associated session that obtained a price pair,
\* a side gets a Fill exactly when its price is at most the current ceiling
\* and its counter is below the current share target; the Fill has the
\* quantity target minus filled and the observed price, and the commit
\* writes the Fills of both sides as they were decided.
C14_EntryRule ==
    /\ [](InEntryRule =>
             /\ IsOpen(The(session_id))
             /\ sessions[The(session_id)].condition_id # None
             /\ sy = sessions[The(session_id)].shares_yes
             /\ sn = sessions[The(session_id)].shares_no
             /\ yes \in Prices /\ no \in Prices)
    /\ [][(pc = "yes_check" /\ pc' # pc)
             => (pc' = "yes_buy" <=> (yes <= max_price /\ sy < shares))]_vars
    /\ [][(pc = "no_check" /\ pc' # pc)
             => (pc' = "no_buy" <=> (no <= max_price /\ sn < shares))]_vars
    /\ [][(pc = "yes_buy" /\ pc' = "no_check")
             => txn' = Append(txn, [side |-> "YES", price |-> yes,
                                    shares |-> shares - sy, inc |-> shares - sy])]_vars
    /\ [][(pc = "no_buy" /\ pc' = "commit")
             => txn' = Append(txn, [side |-> "NO", price |-> no,
                                    shares |-> shares - sn, inc |-> shares - sn])]_vars
    /\ [][(pc = "commit" /\ pc' = "top")
             => /\ Len(trades') = Len(trades) + Len(txn)
                /\ SubSeq(trades', 1, Len(trades)) = trades
                /\ \A k \in 1..Len(txn) :
                       trades'[Len(trades) + k] =
                           [session_id |-> The(session_id), side |-> txn[k].side,
                            price |-> txn[k].price, shares |-> txn[k].shares]]_vars

\* C14 witness: both sides were filled in the same poll, one of them at a
\* price equal to the ceiling.
C14_Witness ==
    /\ pc = "commit"
    /\ Len(txn) = 2
    /\ txn[1].side = "YES" /\ txn[2].side = "NO"
    /\ txn[1].price = max_price

\* C16: a session is closed at most once; a closed row never changes and
\* gets no further Fill; rows of trades are only appended.
C16_ClosedRowsImmutable ==
    /\ [][\A i \in SessionIds : IsClosed(i) => sessions'[i] = sessions[i]]_vars
    /\ [][(pc = "expiry" /\ pc' = "count") => IsOpen(The(session_id))]_vars
    /\ [][/\ Len(trades') >= Len(trades)
          /\ SubSeq(trades', 1, Len(trades)) = trades
          /\ \A k \in (Len(trades) + 1)..Len(trades') :
                 IsOpen(trades'[k].session_id)]_vars

\* C16 witness: a session was closed with a Fill, and its successor has
\* been filled since.
C16_Witness ==
    /\ Len(sessions) = 2
    /\ IsClosed(1)
    /\ Len(trades) = 2
    /\ trades[1].session_id = 1
    /\ trades[2].session_id = 2
    /\ sessions[1].shares_yes + sessions[1].shares_no = trades[1].shares

\* The scheduler's session is open, associated, past the expiry of its
\* market, and the run flag is true.
ExpiredOpenSession ==
    /\ running
    /\ session_id # None
    /\ IsOpen(The(session_id))
    /\ session_end # None
    /\ now >= The(session_end)

\* C17: an open session that has reached its market's expiry while the run
\* flag is true is eventually closed whatever the fetches return; for that
\* the scheduler must still be able to take a step after any price fetch
\* outcome.
C17_ExpiredSessionStillServed ==
    ExpiredOpenSession => ~(pc = "dead" /\ fetch = "raised")

\* C19: the idle scheduler does not hold the lock while it sleeps between
\* two checks of the run flag, so a start request can take the lock.
C19_IdleSleepLeavesLockFree ==
    (pc = "sleep" /\ ~running) => (lock = "free" /\ ENABLED Start)

EndDateOf(cid) == (CHOOSE m \in Catalog : m.conditionId = cid).endDate

\* C20: end_ts and profit of a session are written only by the expiry
\* handling of a poll, for the scheduler's own session, when that session
\* has a market identity and the clock is at or after that market's expiry;
\* a row is inserted open, and every Fill belongs to a session that has a
\* market identity.
C20_ClosedOnlyByExpiry ==
    /\ [][\A i \in SessionIds :
             (sessions'[i].end_ts # sessions[i].end_ts \/ sessions'[i].profit # sessions[i].profit)
                 => /\ pc = "expiry" /\ pc' = "count"
                    /\ session_id = Some(i)
                    /\ sessions[i].condition_id # None
                    /\ now >= EndDateOf(The(sessions[i].condition_id))
                    /\ sessions'[i].end_ts = Some(now)
                    /\ sessions'[i].profit # None]_vars
    /\ [][Len(sessions') > Len(sessions)
             => /\ sessions'[Len(sessions')].end_ts = None
                /\ sessions'[Len(sessions')].profit = None]_vars
    /\ [](\A k \in 1..Len(trades) : sessions[trades[k].session_id].condition_id # None)

\* C20 witness: the expiry handling has just closed the scheduler's session
\* at the expiry of its market.
C20_Witness ==
    /\ pc = "count"
    /\ session_id # None
    /\ IsClosed(The(session_id))
    /\ sessions[The(session_id)].end_ts = Some(now)
    /\ now = EndDateOf(The(sessions[The(session_id)].condition_id))

\* C12: a /controls request sets exactly the fields it carries among share
\* target, price ceiling, mode and session limit (a limit of 0 clears the
\* limit), leaves the fields it does not carry, the run flag and the
\* closed-session counter as they were; /stop clears the run flag and
\* leaves the other fields of the control state as they were.
C12_ControlsFrame ==
    /\ [][\A req \in WideControlReqs :
             Controls(req)
                 => /\ shares' = IF req.shares = None THEN shares ELSE The(req.shares)
                    /\ max_price' = IF req.max_price = None THEN max_price ELSE The(req.max_price)
                    /\ mode' = IF req.mode = None THEN mode ELSE The(req.mode)
                    /\ max_sessions' = IF req.max_sessions = None THEN max_sessions
                                       ELSE IF The(req.max_sessions) = 0 THEN None
                                       ELSE req.max_sessions
                    /\ running' = running
                    /\ current_sessions' = current_sessions]_vars
    /\ [][Stop => /\ running' = FALSE
                  /\ UNCHANGED <<mode, shares, max_price, max_sessions, current_sessions>>]_vars

\* C12 witness: after a limit of 1 was configured and one session was
\* closed and counted, a request carrying only the mode has been applied.
C12_Witness ==
    /\ mode = "real"
    /\ shares = 20
    /\ max_price = 6
    /\ max_sessions = Some(1)
    /\ current_sessions = 1
    /\ running = FALSE

\* C13: the share target held in the control state is never negative, and
\* so is the target the scheduler copies to a session row.
C13_ShareTargetNeverNegative ==
    /\ shares >= 0
    /\ \A i \in SessionIds : sessions[i].shares_target >= 0

BothSidesPriced(feed) ==
    /\ \A i \in 1..Len(feed) : feed[i].price # None
    /\ \E i \in 1..Len(feed) : feed[i].outcome = "YES"
    /\ \E i \in 1..Len(feed) : feed[i].outcome = "NO"

FirstOccurrence(feed, side) ==
    LET k == CHOOSE k \in 1..Len(feed) :
                 /\ feed[k].outcome = side
                 /\ \A j \in 1..(k - 1) : feed[j].outcome # side
    IN  The(feed[k].price)

\* C15: for a feed of priced records in which both sides occur,
\* get_latest_prices returns for each side the price of the first record of
\* that side in feed order.
C15_FirstOccurrenceWins ==
    (response # None /\ prices # None /\ The(response).ok /\ BothSidesPriced(The(response).feed))
        => /\ The(prices).kind = "ok"
           /\ The(prices).yes = FirstOccurrence(The(response).feed, "YES")
           /\ The(prices).no = FirstOccurrence(The(response).feed, "NO")

\* C18: every fill, pending or committed, has a strictly positive quantity
\* (so that no commit lowers shares_yes or shares_no), whatever requests
\* change the share target while the entry rule is evaluated.
C18_FillsStrictlyPositive ==
    /\ \A k \in 1..Len(trades) : trades[k].shares > 0
    /\ \A k \in 1..Len(txn) : txn[k].shares > 0
    /\ \A i \in SessionIds : sessions[i].shares_yes >= 0 /\ sessions[i].shares_no >= 0

=============================================================================
